---------------------------- MODULE Spec2Model ----------------------------
(***************************************************************************)
(* Model of src/src/main.rs: a line-oriented grep with the flags           *)
(* -A -B -C -c -i -v -F -n.  main parses the flags into an Options value   *)
(* and calls grep, which reads the file, collects the selected lines in    *)
(* matching_lines and then prints either their count or the lines with     *)
(* their context.                                                          *)
(*                                                                         *)
(* Text is a sequence of one-character strings.  Line indices are 0-based  *)
(* as in the source (enumerate()), sequences are 1-based as in TLA+.       *)
(***************************************************************************)
EXTENDS Integers, Sequences, FiniteSets, TLC

-----------------------------------------------------------------------------
(* Bounds of the model *)

\* longest input file, in lines
MaxLines == 3
\* largest number given with -A, -B or -C
MaxCtx == 2
\* most option arguments after <pattern> <file>
MaxArgs == 4

-----------------------------------------------------------------------------
(* Inputs *)

\* the search patterns tried (args[1])
Patterns == { <<"a", "B">> }

\* the decodable line texts a file is made of: one contains the pattern as
\* written, one contains it only up to letter case (and not at the start of
\* the line), one does not contain it
LineTexts == { <<"a", "B">>, <<"x", "A", "b">>, <<"b">> }

\* a line whose bytes are not valid UTF-8: reader.lines() yields Err for it
InvalidUtf8 == << "\\xFF" >>

RECURSIVE SeqsOf(_, _)
SeqsOf(S, n) ==
    IF n = 0 THEN { <<>> }
    ELSE LET shorter == SeqsOf(S, n - 1)
         IN  shorter \cup { Append(s, x) : s \in { t \in shorter : Len(t) = n - 1 }, x \in S }

\* The files: every decodable file of at most MaxLines lines, and every such
\* file cut short by an undecodable line (the lines after the first
\* undecodable one are never read, so none are given).
Files ==
    SeqsOf(LineTexts, MaxLines)
      \cup { Append(s, InvalidUtf8) : s \in SeqsOf(LineTexts, MaxLines - 1) }

\* the number suffix of -A<N>, -B<N>, -C<N>: a number, or text parse() rejects
Suffixes ==
    { [ok |-> TRUE, val |-> n] : n \in 0..MaxCtx } \cup { [ok |-> FALSE, val |-> 0] }

-----------------------------------------------------------------------------
(* Options and the matcher *)

DefaultOptions ==
    [ after |-> 0, before |-> 0, context |-> 0, count |-> FALSE,
      ignore_case |-> FALSE, invert |-> FALSE, fixed |-> FALSE, number |-> FALSE ]

\* str::parse::<usize>().unwrap_or(0)
ParseOrZero(sfx) == IF sfx.ok THEN sfx.val ELSE 0

\* case folding of one character, as the (?i) flag of the regex does it
ToLower(c) ==
    CASE c = "A" -> "a"
      [] c = "B" -> "b"
      [] OTHER   -> c

Fold(s) == [ i \in 1..Len(s) |-> ToLower(s[i]) ]

\* str::contains: the pattern occurs as a contiguous substring
Contains(line, pat) ==
    \E i \in 0..(Len(line) - Len(pat)) : SubSeq(line, i + 1, i + Len(pat)) = pat

NoRegex == [ some |-> FALSE, ci |-> FALSE, lit |-> <<>> ]

\* the Option<Regex> built once per run: None under -F, otherwise the
\* escaped (so literal) pattern, case-insensitive under -i
BuildRegex(pattern, opts) ==
    IF opts.fixed THEN NoRegex
    ELSE [ some |-> TRUE, ci |-> opts.ignore_case, lit |-> pattern ]

\* Regex::is_match of an escaped literal
RegexIsMatch(re, line) ==
    IF re.ci THEN Contains(Fold(line), Fold(re.lit)) ELSE Contains(line, re.lit)

\* let matched = ...
Matched(line, pattern, opts, re) ==
    IF opts.fixed THEN Contains(line, pattern)
    ELSE IF re.some THEN RegexIsMatch(re, line) ELSE FALSE

\* Selected, were the invert flag not consulted
Selected_ignoring_invert(matched, opts) == matched

\* whether the line is pushed to matching_lines
Selected(matched, opts) ==
    IF opts.invert THEN ~matched ELSE matched

\* the decision for one line of one run
IsHit(line, pattern, opts) ==
    Selected(Matched(line, pattern, opts, BuildRegex(pattern, opts)), opts)


-----------------------------------------------------------------------------
(* Output *)

\* one println! of a line: n is the line's index in the file, prefix the
\* number printed before it under -n (0: none is printed)
LineEntry(n, text, opts) ==
    [ kind |-> "line", n |-> n, prefix |-> IF opts.number THEN n + 1 ELSE 0, text |-> text ]

\* println!("{}", matching_lines.len())
CountEntry(matching) ==
    [ kind |-> "count", n |-> Len(matching), prefix |-> 0, text |-> <<>> ]

\* CountMode, were counting dropped when a window is set
CountMode_unless_window(opts) == opts.count /\ opts.after = 0 /\ opts.before = 0

\* if options.count
CountMode(opts) == opts.count

\* HasWindow, were -C taken for a window of its own
HasWindow_or_context(opts) == opts.after > 0 \/ opts.before > 0 \/ opts.context > 0

\* if options.after > 0 || options.before > 0
HasWindow(opts) == opts.after > 0 \/ opts.before > 0

\* line_number.saturating_sub(options.before)
SliceStart(line_number, opts) ==
    IF line_number >= opts.before THEN line_number - opts.before ELSE 0

\* line_number + 1 + options.after
SliceEnd(line_number, opts) == line_number + 1 + opts.after

\* &v[start..end] of a vector of length len: panics unless start <= end <= len
SliceInRange(start, end, len) == start <= end /\ end <= len

\* the inner loop over &matching_lines[start..end]: every element of the
\* slice except the hit itself is printed
RECURSIVE ContextFrom(_, _, _, _, _)
ContextFrom(matching, line_number, j, end, opts) ==
    IF j >= end THEN <<>>
    ELSE LET context_line == matching[j + 1]
             rest == ContextFrom(matching, line_number, j + 1, end, opts)
         IN  IF context_line.line_number # line_number
             THEN <<LineEntry(context_line.line_number, context_line.line, opts)>> \o rest
             ELSE rest

ContextLines(matching, line_number, opts) ==
    ContextFrom(matching, line_number, SliceStart(line_number, opts),
                SliceEnd(line_number, opts), opts)

-----------------------------------------------------------------------------
(* State *)

VARIABLES
    remaining,       \* command-line words main has not consumed yet
    pattern,         \* args[1]
    file,            \* the file at args[2]: whether it can be opened, its lines
    options,         \* the Options value main fills in
    pc,              \* where the program is
    regex,           \* grep's regex
    line_number,     \* the read loop's position (lines consumed so far)
    matching_lines,  \* grep's vector of (line_number, line)
    k,               \* the output loop's position in matching_lines
    out,             \* what has been written to stdout
    err              \* what has been written to stderr

vars == << remaining, pattern, file, options, pc, regex, line_number,
           matching_lines, k, out, err >>

NoFile == [ exists |-> FALSE, lines |-> <<>> ]

Init ==
    /\ remaining \in 1..(3 + MaxArgs)
    /\ IF remaining < 3
       THEN pattern = <<>> /\ file = NoFile
       ELSE /\ pattern \in Patterns
            /\ file \in { [ exists |-> TRUE, lines |-> f ] : f \in Files } \cup { NoFile }
    /\ options = DefaultOptions
    /\ pc = "main"
    /\ regex = NoRegex
    /\ line_number = 0
    /\ matching_lines = <<>>
    /\ k = 0
    /\ out = <<>>
    /\ err = <<>>

grepVars == << regex, line_number, matching_lines, k, out >>

-----------------------------------------------------------------------------
(* main *)

\* args.len() < 3: the usage message, and nothing else
Usage ==
    /\ pc = "main"
    /\ remaining < 3
    /\ err' = Append(err, "usage")
    /\ pc' = "exit"
    /\ UNCHANGED << remaining, pattern, file, options, grepVars >>

\* the program name, the pattern and the file path are taken
MainStart ==
    /\ pc = "main"
    /\ remaining >= 3
    /\ remaining' = remaining - 3
    /\ pc' = "args"
    /\ UNCHANGED << pattern, file, options, grepVars, err >>

\* one turn of the loop over args[3..] sets one field of options
SetOption(opts) ==
    /\ pc = "args"
    /\ remaining > 0
    /\ remaining' = remaining - 1
    /\ options' = opts
    /\ UNCHANGED << pattern, file, pc, grepVars, err >>

ArgAfter   == \E sfx \in Suffixes : SetOption([options EXCEPT !.after = ParseOrZero(sfx)])
ArgBefore  == \E sfx \in Suffixes : SetOption([options EXCEPT !.before = ParseOrZero(sfx)])
ArgContext == \E sfx \in Suffixes : SetOption([options EXCEPT !.context = ParseOrZero(sfx)])
ArgCount      == SetOption([options EXCEPT !.count = TRUE])
ArgIgnoreCase == SetOption([options EXCEPT !.ignore_case = TRUE])
ArgInvert     == SetOption([options EXCEPT !.invert = TRUE])
ArgFixed      == SetOption([options EXCEPT !.fixed = TRUE])
ArgNumber     == SetOption([options EXCEPT !.number = TRUE])

\* any other word: a message, and the loop goes on
ArgUnknown ==
    /\ pc = "args"
    /\ remaining > 0
    /\ remaining' = remaining - 1
    /\ err' = Append(err, "unknown option")
    /\ UNCHANGED << pattern, file, options, pc, grepVars >>

\* the loop is over: grep(file_path, pattern, &options) is called
CallGrep ==
    /\ pc = "args"
    /\ remaining = 0
    /\ pc' = "open"
    /\ UNCHANGED << remaining, pattern, file, options, grepVars, err >>

\* if let Err(e) = grep(...) { eprintln!("Error: {}", e) }
ReportError ==
    /\ pc = "failed"
    /\ err' = Append(err, "Error")
    /\ pc' = "exit"
    /\ UNCHANGED << remaining, pattern, file, options, grepVars >>

\* grep returned Ok(()): main ends
MainEnd ==
    /\ pc = "returned"
    /\ pc' = "exit"
    /\ UNCHANGED << remaining, pattern, file, options, grepVars, err >>

-----------------------------------------------------------------------------
(* grep *)

\* File::open(file_path)? fails: grep returns the error before anything else
OpenFail ==
    /\ pc = "open"
    /\ ~file.exists
    /\ pc' = "failed"
    /\ UNCHANGED << remaining, pattern, file, options, grepVars, err >>

\* The file opens, matching_lines is created empty and the regex is built.
\* The pattern is escaped before it is compiled, so Regex::new does not fail.
OpenOk ==
    /\ pc = "open"
    /\ file.exists
    /\ matching_lines' = <<>>
    /\ regex' = BuildRegex(pattern, options)
    /\ pc' = "read"
    /\ UNCHANGED << remaining, pattern, file, options, line_number, k, out, err >>

\* let line = line?; on a line that is not valid UTF-8
ReadErr ==
    /\ pc = "read"
    /\ line_number < Len(file.lines)
    /\ file.lines[line_number + 1] = InvalidUtf8
    /\ pc' = "failed"
    /\ UNCHANGED << remaining, pattern, file, options, grepVars, err >>

\* one turn of the read loop: the line is matched and pushed if selected
ReadLine ==
    /\ pc = "read"
    /\ line_number < Len(file.lines)
    /\ file.lines[line_number + 1] # InvalidUtf8
    /\ LET line == file.lines[line_number + 1]
           matched == Matched(line, pattern, options, regex)
       IN  matching_lines' =
               IF Selected(matched, options)
               THEN Append(matching_lines, [ line_number |-> line_number, line |-> line ])
               ELSE matching_lines
    /\ line_number' = line_number + 1
    /\ UNCHANGED << remaining, pattern, file, options, pc, regex, k, out, err >>

\* the reader is exhausted
ReadEnd ==
    /\ pc = "read"
    /\ line_number = Len(file.lines)
    /\ pc' = "output"
    /\ UNCHANGED << remaining, pattern, file, options, grepVars, err >>

\* counting: the number of collected lines is printed and grep returns
PrintCount ==
    /\ pc = "output"
    /\ CountMode(options)
    /\ out' = Append(out, CountEntry(matching_lines))
    /\ pc' = "returned"
    /\ UNCHANGED << remaining, pattern, file, options, regex, line_number,
                    matching_lines, k, err >>

\* one turn of the loop over matching_lines: the collected line is printed
PrintHit ==
    /\ pc = "output"
    /\ ~CountMode(options)
    /\ k < Len(matching_lines)
    /\ LET m == matching_lines[k + 1]
       IN  out' = Append(out, LineEntry(m.line_number, m.line, options))
    /\ IF HasWindow(options)
       THEN pc' = "context" /\ k' = k
       ELSE pc' = "output" /\ k' = k + 1
    /\ UNCHANGED << remaining, pattern, file, options, regex, line_number,
                    matching_lines, err >>

\* &matching_lines[start..end] is out of range: the thread panics, the
\* process ends there
SlicePanic ==
    /\ pc = "context"
    /\ LET ln == matching_lines[k + 1].line_number
       IN  ~SliceInRange(SliceStart(ln, options), SliceEnd(ln, options), Len(matching_lines))
    /\ err' = Append(err, "panic")
    /\ pc' = "panicked"
    /\ UNCHANGED << remaining, pattern, file, options, grepVars >>

\* the slice is in range: its elements other than the hit are printed
PrintContext ==
    /\ pc = "context"
    /\ LET ln == matching_lines[k + 1].line_number
       IN  /\ SliceInRange(SliceStart(ln, options), SliceEnd(ln, options), Len(matching_lines))
           /\ out' = out \o ContextLines(matching_lines, ln, options)
    /\ k' = k + 1
    /\ pc' = "output"
    /\ UNCHANGED << remaining, pattern, file, options, regex, line_number,
                    matching_lines, err >>

\* the loop over matching_lines is over: Ok(())
GrepReturn ==
    /\ pc = "output"
    /\ ~CountMode(options)
    /\ k = Len(matching_lines)
    /\ pc' = "returned"
    /\ UNCHANGED << remaining, pattern, file, options, grepVars, err >>

Next ==
    \/ Usage
    \/ MainStart
    \/ ArgAfter
    \/ ArgBefore
    \/ ArgContext
    \/ ArgCount
    \/ ArgIgnoreCase
    \/ ArgInvert
    \/ ArgFixed
    \/ ArgNumber
    \/ ArgUnknown
    \/ CallGrep
    \/ OpenFail
    \/ OpenOk
    \/ ReadErr
    \/ ReadLine
    \/ ReadEnd
    \/ PrintCount
    \/ PrintHit
    \/ SlicePanic
    \/ PrintContext
    \/ GrepReturn
    \/ ReportError
    \/ MainEnd

Spec == Init /\ [][Next]_vars

-----------------------------------------------------------------------------
(* A whole run of grep as a function of its inputs, composed of the same  *)
(* steps: what it has written when it ends, and how it ends.              *)

RECURSIVE CollectFrom(_, _, _, _, _)
CollectFrom(lines, pat, opts, i, acc) ==
    IF i >= Len(lines) THEN acc
    ELSE CollectFrom(lines, pat, opts, i + 1,
             IF IsHit(lines[i + 1], pat, opts)
             THEN Append(acc, [ line_number |-> i, line |-> lines[i + 1] ])
             ELSE acc)

RECURSIVE PrintFrom(_, _, _, _)
PrintFrom(matching, opts, i, acc) ==
    IF i >= Len(matching) THEN [ out |-> acc, end |-> "returned" ]
    ELSE LET m == matching[i + 1]
             printed == Append(acc, LineEntry(m.line_number, m.line, opts))
         IN  IF ~HasWindow(opts)
             THEN PrintFrom(matching, opts, i + 1, printed)
             ELSE IF ~SliceInRange(SliceStart(m.line_number, opts),
                                   SliceEnd(m.line_number, opts), Len(matching))
             THEN [ out |-> printed, end |-> "panicked" ]
             ELSE PrintFrom(matching, opts, i + 1,
                            printed \o ContextLines(matching, m.line_number, opts))

GrepOutput(f, pat, opts) ==
    IF ~f.exists \/ (\E i \in 1..Len(f.lines) : f.lines[i] = InvalidUtf8)
    THEN [ out |-> <<>>, end |-> "failed" ]
    ELSE LET matching == CollectFrom(f.lines, pat, opts, 0, <<>>)
         IN  IF CountMode(opts)
             THEN [ out |-> <<CountEntry(matching)>>, end |-> "returned" ]
             ELSE PrintFrom(matching, opts, 0, <<>>)

-----------------------------------------------------------------------------
(* Vocabulary of the properties *)

\* grep has ended, one way or another
Ended == pc \in { "returned", "failed", "panicked" }

\* the read loop has consumed the whole file without an error
Collected == pc \in { "output", "context", "returned", "panicked" }

AllIndices == 0..(Len(file.lines) - 1)

\* the indices of the collected lines
CollectedIndices == { matching_lines[i].line_number : i \in 1..Len(matching_lines) }

\* the hit set of the run's inputs: the lines selected after inversion
HitSet == { i \in AllIndices : IsHit(file.lines[i + 1], pattern, options) }

\* the inclusive window of hit h, clipped to the file
WindowOf(h) ==
    { i \in AllIndices : h - options.before <= i /\ i <= h + options.after }

\* the union of the windows of all hits
WindowUnion == UNION { WindowOf(h) : h \in HitSet }

\* the line indices written so far
WrittenIndices == { out[i].n : i \in { j \in 1..Len(out) : out[j].kind = "line" } }

TypeOK ==
    /\ remaining \in 0..(3 + MaxArgs)
    /\ options.after \in 0..MaxCtx /\ options.before \in 0..MaxCtx
    /\ options.context \in 0..MaxCtx
    /\ line_number \in 0..Len(file.lines)
    /\ k \in 0..Len(matching_lines)
    /\ Len(matching_lines) <= line_number

\* the step-by-step run and the run as a function end in the same place
\* with the same output
RunAgrees ==
    Ended => [ out |-> out, end |-> pc ] = GrepOutput(file, pattern, options)

-----------------------------------------------------------------------------
(* Properties *)

\* C1: when counting is off and the file was read, the set of line indices
\* grep has written when it ends is the union over all hits h of the
\* windows [max(0, h - before), min(len - 1, h + after)], taken over the
\* indices of the whole file.
C1_WritesWindowUnion ==
    (pc \in { "returned", "panicked" } /\ ~options.count)
        => WrittenIndices = WindowUnion

\* C2: no line index is written twice.
C2_NoIndexWrittenTwice ==
    \A i, j \in 1..Len(out) :
        (i # j /\ out[i].kind = "line" /\ out[j].kind = "line") => out[i].n # out[j].n

\* C3: every line written has a larger index than the line written before it.
C3_WritesAscend ==
    \A i \in 1..(Len(out) - 1) :
        (out[i].kind = "line" /\ out[i + 1].kind = "line") => out[i].n < out[i + 1].n

\* C4: the slice grep takes for the context of a hit lies within the
\* sequence it slices, so the run never aborts on it.
C4_SliceWithinBounds ==
    /\ pc # "panicked"
    /\ pc = "context" =>
          LET ln == matching_lines[k + 1].line_number
          IN  SliceInRange(SliceStart(ln, options), SliceEnd(ln, options),
                           Len(matching_lines))

\* C5: a run with -C<N> and no -A/-B ends as, and has written what, the run
\* with -B<N> -A<N> on the same pattern and file does.
C5_ContextIsBeforeAndAfter ==
    (Ended /\ options.context > 0 /\ options.before = 0 /\ options.after = 0)
        => [ out |-> out, end |-> pc ]
             = GrepOutput(file, pattern,
                          [ options EXCEPT !.before = options.context,
                                           !.after = options.context ])

\* C6: under -c no line is ever written, and the run's whole output is one
\* number, the cardinality of the hit set, which is also what the run
\* writes with before, after and context all 0.
C6_CountOnly ==
    options.count =>
        /\ \A i \in 1..Len(out) : out[i].kind = "count"
        /\ pc # "panicked"
        /\ pc = "returned" =>
              /\ out = << [ kind |-> "count", n |-> Cardinality(HitSet),
                            prefix |-> 0, text |-> <<>> ] >>
              /\ out = GrepOutput(file, pattern,
                                  [ options EXCEPT !.before = 0, !.after = 0,
                                                   !.context = 0 ]).out

\* a counting run with a window set and an inverted, proper, non-empty hit set
C6_Witness ==
    /\ pc = "returned" /\ options.count /\ options.invert
    /\ options.after + options.before + options.context > 0
    /\ HitSet # {} /\ HitSet # AllIndices

\* C7: under -F -i a line is matched iff its case-folded text contains the
\* case-folded pattern (and is collected iff that differs from invert).
C7_FixedIgnoreCaseFolds ==
    (Collected /\ options.fixed /\ options.ignore_case)
        => CollectedIndices =
             { i \in AllIndices :
                 Contains(Fold(file.lines[i + 1]), Fold(pattern)) # options.invert }

\* C8: a line is a hit with invert on iff it is not a hit with invert off,
\* and the lines a run collects are exactly those the run with the opposite
\* invert flag does not select.
C8_InversionDuality ==
    Collected =>
        /\ \A i \in AllIndices :
              IsHit(file.lines[i + 1], pattern, [ options EXCEPT !.invert = TRUE ])
                = ~IsHit(file.lines[i + 1], pattern, [ options EXCEPT !.invert = FALSE ])
        /\ CollectedIndices =
             AllIndices \ { i \in AllIndices :
                              IsHit(file.lines[i + 1], pattern,
                                    [ options EXCEPT !.invert = ~options.invert ]) }

\* an inverted run over two or more lines that collects some and not all
C8_Witness ==
    /\ pc = "returned" /\ options.invert /\ Len(file.lines) >= 2
    /\ CollectedIndices # {} /\ CollectedIndices # AllIndices

\* C9: a run that ends abnormally (file cannot be opened, line cannot be
\* decoded, abort during processing) has written nothing to the output.
C9_NoOutputOnAbort ==
    pc \in { "failed", "panicked" } => out = <<>>

\* C10: with before = 0, after = 0 and counting off the run does not abort
\* and writes exactly the hit lines, once each and with their own text, as
\* many as the counting run on the same inputs reports.
C10_ZeroWindowWritesHitSet ==
    (~options.count /\ options.before = 0 /\ options.after = 0) =>
        /\ pc # "panicked"
        /\ pc = "returned" =>
              /\ \A i \in 1..Len(out) :
                    /\ out[i].kind = "line"
                    /\ out[i].n \in HitSet
                    /\ out[i].text = file.lines[out[i].n + 1]
              /\ \A h \in HitSet :
                    Cardinality({ i \in 1..Len(out) : out[i].n = h }) = 1
              /\ Len(out) =
                   GrepOutput(file, pattern, [ options EXCEPT !.count = TRUE ]).out[1].n

\* a plain run with -C set that has written two or more hits and skipped a line
C10_Witness ==
    /\ pc = "returned" /\ ~options.count
    /\ options.before = 0 /\ options.after = 0 /\ options.context > 0
    /\ Len(out) >= 2 /\ HitSet # AllIndices

=============================================================================
